---- MODULE Spec2Model ----
(***************************************************************************)
(* Model of declarative_compute.hpp: the ThreadPool (worker loop, enqueue, *)
(* wait_all, destructor) and the process() dispatcher with its sequential, *)
(* parallel and adaptive processors.                                       *)
(*                                                                         *)
(* Every access to tasks_, stop_ and active_tasks_ in the source happens   *)
(* with mutex_ held, so a critical section that is not interrupted by a    *)
(* sleep is one atomic step guarded by "the mutex is free".  wait_all is   *)
(* the one place that sleeps with the lock held; it holds mutex_ across    *)
(* steps.                                                                  *)
(***************************************************************************)
EXTENDS Integers, Sequences, FiniteSets, TLC

\* ---- bounds of the model ----
MaxLen == 5          \* longest input vector
MaxThreads == 2      \* largest config.max_threads
MaxWorkers == 2      \* largest stand-alone ThreadPool
MaxTasks == 3        \* most tasks the stand-alone pool's owner enqueues
MaxChunk == 2        \* largest value an undefined N / 0 is taken to yield
MaxBlock == 2        \* largest MemoryPool block size
MaxBlocks == 2       \* most blocks a MemoryPool grows to
MaxCallers == 2      \* callers of MemoryPool::acquire / release

\* ---- program constants ----
PARALLEL_THRESHOLD == 1000

VARIABLES
    pc,             \* position of the calling / owning thread
    input,          \* const std::vector<InputT>& input
    config,         \* ProcessConfig (the fields the processors read)
    CORES,          \* std::thread::hardware_concurrency() as read by process_adaptive
    result,         \* ProcessResult<OutputT>
    chunk_size,     \* process_parallel: chunk_size
    loop_i,         \* process_parallel: loop variable i of the partition loop
    futures,        \* process_parallel: std::vector<std::future<void>>
    waited,         \* process_parallel: futures already passed by the wait loop
    invoked,        \* history: how often func was invoked on each element
    written,        \* history: how often each output slot was assigned
    workers_,       \* ThreadPool: position of each worker thread
    tasks_,         \* ThreadPool: pending tasks (ids), back of the vector last
    stop_,          \* ThreadPool: stop request
    active_tasks_,  \* ThreadPool: counter of tasks in flight
    mutex_,         \* ThreadPool: "free", or the holder that keeps it across steps
    current,        \* ThreadPool: the task each worker has moved out of the queue
    joined,         \* ~ThreadPool: workers already joined
    submitted,      \* history: number of enqueue calls made
    executed,       \* history: how often each task id was run
    lateDequeues,   \* history: task ids dequeued after the stop request
    pools_,         \* MemoryPool: number of blocks owned
    available_,     \* MemoryPool: the free list (slots), back of the vector last
    block_size_,    \* MemoryPool: slots per block
    total_allocated_, \* MemoryPool: slots allocated so far
    held            \* history: the slots each caller got from acquire and still has

procVars == <<input, config, CORES, result, chunk_size, loop_i, futures,
              waited, invoked, written>>
poolVars == <<workers_, tasks_, stop_, active_tasks_, mutex_, current, joined,
              submitted, executed, lateDequeues>>
memVars == <<pools_, available_, block_size_, total_allocated_, held>>
vars == <<pc, input, config, CORES, result, chunk_size, loop_i, futures,
          waited, invoked, written, workers_, tasks_, stop_, active_tasks_,
          mutex_, current, joined, submitted, executed, lateDequeues,
          pools_, available_, block_size_, total_allocated_, held>>

Min(a, b) == IF a < b THEN a ELSE b
Max(a, b) == IF a > b THEN a ELSE b

\* No MemoryPool is in use: ThreadPool and the processors never touch one.
NoMemoryPool ==
    /\ pools_ = 0
    /\ available_ = <<>>
    /\ block_size_ = 0
    /\ total_allocated_ = 0
    /\ held = <<>>

\* ========================================================================
\* ThreadPool
\* ========================================================================

\* ThreadPool(num_threads): num_threads workers, each at the top of its loop.
ThreadPoolCtor(num_threads) ==
    /\ workers_' = [w \in 1..num_threads |-> "ready"]
    /\ tasks_' = <<>>
    /\ stop_' = FALSE
    /\ active_tasks_' = 0
    /\ mutex_' = "free"
    /\ current' = [w \in 1..num_threads |-> 0]
    /\ joined' = 0

\* The predicate of condition_.wait: stop_ || !tasks_.empty()
WaitPredicate == stop_ \/ tasks_ # <<>>

\* ShouldExit with the queue test dropped: a worker leaves on the stop
\* request alone.
ShouldExit_StopOnly == stop_

\* if (stop_ && tasks_.empty()) return;
ShouldExit == stop_ /\ tasks_ = <<>>

\* WorkerBlock with a bare condition_.wait(lock): the worker blocks without
\* looking at the queue or the stop request first.
WorkerBlock_NoPredicate(w) ==
    /\ w \in DOMAIN workers_
    /\ workers_[w] = "ready"
    /\ mutex_ = "free"
    /\ workers_' = [workers_ EXCEPT ![w] = "waiting"]
    /\ UNCHANGED <<memVars, pc, procVars, tasks_, stop_, active_tasks_, mutex_,
                   current, joined, submitted, executed, lateDequeues>>

\* Worker w takes the lock, finds the predicate false and blocks on
\* condition_ (the lock is released atomically with entering the wait).
WorkerBlock(w) ==
    /\ w \in DOMAIN workers_
    /\ workers_[w] = "ready"
    /\ mutex_ = "free"
    /\ ~WaitPredicate
    /\ workers_' = [workers_ EXCEPT ![w] = "waiting"]
    /\ UNCHANGED <<memVars, pc, procVars, tasks_, stop_, active_tasks_, mutex_,
                   current, joined, submitted, executed, lateDequeues>>

\* A blocked worker returns from the wait without a notification
\* (condition variables may wake spuriously); it re-evaluates the predicate.
WorkerSpuriousWake(w) ==
    /\ w \in DOMAIN workers_
    /\ workers_[w] = "waiting"
    /\ workers_' = [workers_ EXCEPT ![w] = "ready"]
    /\ UNCHANGED <<memVars, pc, procVars, tasks_, stop_, active_tasks_, mutex_,
                   current, joined, submitted, executed, lateDequeues>>

\* WorkerExit without the test after the wait: the worker returns as soon
\* as the wait lets it through.
WorkerExit_OnWake(w) ==
    /\ w \in DOMAIN workers_
    /\ workers_[w] = "ready"
    /\ mutex_ = "free"
    /\ WaitPredicate
    /\ workers_' = [workers_ EXCEPT ![w] = "exited"]
    /\ UNCHANGED <<memVars, pc, procVars, tasks_, stop_, active_tasks_, mutex_,
                   current, joined, submitted, executed, lateDequeues>>

\* Worker w holds the lock, the predicate is true, stop_ && tasks_.empty().
WorkerExit(w) ==
    /\ w \in DOMAIN workers_
    /\ workers_[w] = "ready"
    /\ mutex_ = "free"
    /\ WaitPredicate
    /\ ShouldExit
    /\ workers_' = [workers_ EXCEPT ![w] = "exited"]
    /\ UNCHANGED <<memVars, pc, procVars, tasks_, stop_, active_tasks_, mutex_,
                   current, joined, submitted, executed, lateDequeues>>

\* WorkerDequeue without active_tasks_++: the task leaves the queue
\* uncounted.
WorkerDequeue_NoIncrement(w) ==
    /\ w \in DOMAIN workers_
    /\ workers_[w] = "ready"
    /\ mutex_ = "free"
    /\ WaitPredicate
    /\ ~ShouldExit
    /\ current' = [current EXCEPT ![w] = tasks_[Len(tasks_)]]
    /\ tasks_' = SubSeq(tasks_, 1, Len(tasks_) - 1)
    /\ workers_' = [workers_ EXCEPT ![w] = "running"]
    /\ lateDequeues' = IF stop_ THEN lateDequeues \cup {tasks_[Len(tasks_)]}
                       ELSE lateDequeues
    /\ UNCHANGED <<memVars, pc, procVars, stop_, active_tasks_, mutex_, joined,
                   submitted, executed>>

\* task = std::move(tasks_.back()); tasks_.pop_back(); active_tasks_++;
WorkerDequeue(w) ==
    /\ w \in DOMAIN workers_
    /\ workers_[w] = "ready"
    /\ mutex_ = "free"
    /\ WaitPredicate
    /\ ~ShouldExit
    /\ current' = [current EXCEPT ![w] = tasks_[Len(tasks_)]]
    /\ tasks_' = SubSeq(tasks_, 1, Len(tasks_) - 1)
    /\ active_tasks_' = active_tasks_ + 1
    /\ workers_' = [workers_ EXCEPT ![w] = "running"]
    /\ lateDequeues' = IF stop_ THEN lateDequeues \cup {tasks_[Len(tasks_)]}
                       ELSE lateDequeues
    /\ UNCHANGED <<memVars, pc, procVars, stop_, mutex_, joined, submitted, executed>>

\* task(); runs outside the lock.
WorkerRunTask(w) ==
    /\ w \in DOMAIN workers_
    /\ workers_[w] = "running"
    /\ executed' = [executed EXCEPT ![current[w]] = @ + 1]
    /\ workers_' = [workers_ EXCEPT ![w] = "dec"]
    /\ UNCHANGED <<memVars, pc, procVars, tasks_, stop_, active_tasks_, mutex_,
                   current, joined, submitted, lateDequeues>>

\* { lock_guard; active_tasks_--; } then back to the top of the loop.
WorkerDecrement(w) ==
    /\ w \in DOMAIN workers_
    /\ workers_[w] = "dec"
    /\ mutex_ = "free"
    /\ active_tasks_' = active_tasks_ - 1
    /\ current' = [current EXCEPT ![w] = 0]
    /\ workers_' = [workers_ EXCEPT ![w] = "ready"]
    /\ UNCHANGED <<memVars, pc, procVars, tasks_, stop_, mutex_, joined, submitted,
                   executed, lateDequeues>>

\* enqueue, first half: { lock_guard; tasks_.emplace_back(task); }
EnqueuePush ==
    /\ pc \in {"client", "wait_returned"}
    /\ submitted < MaxTasks
    /\ mutex_ = "free"
    /\ tasks_' = Append(tasks_, submitted + 1)
    /\ submitted' = submitted + 1
    /\ pc' = "enqueue_notify"
    /\ UNCHANGED <<memVars, procVars, workers_, stop_, active_tasks_, mutex_, current,
                   joined, executed, lateDequeues>>

\* enqueue, second half: condition_.notify_one() wakes one blocked worker,
\* any of them, or nobody when none is blocked.
EnqueueNotify ==
    /\ pc = "enqueue_notify"
    /\ \/ \E w \in DOMAIN workers_ :
             /\ workers_[w] = "waiting"
             /\ workers_' = [workers_ EXCEPT ![w] = "ready"]
       \/ /\ \A w \in DOMAIN workers_ : workers_[w] # "waiting"
          /\ workers_' = workers_
    /\ pc' = "client"
    /\ UNCHANGED <<memVars, procVars, tasks_, stop_, active_tasks_, mutex_, current,
                   joined, submitted, executed, lateDequeues>>

\* WaitAllIdle without the active count: tasks being run are not waited for.
WaitAllIdle_QueueOnly == tasks_ = <<>>

\* wait_all: if (tasks_.empty() && active_tasks_ == 0) break;
WaitAllIdle == tasks_ = <<>> /\ active_tasks_ = 0

\* wait_all, one iteration that finds the pool busy: the lock_guard is taken
\* and the thread sleeps with it held.
WaitAllPoll ==
    /\ pc \in {"client", "wait_returned", "wait_all"}
    /\ mutex_ = "free"
    /\ ~WaitAllIdle
    /\ mutex_' = "wait_all"
    /\ pc' = "wait_all_sleep"
    /\ UNCHANGED <<memVars, procVars, workers_, tasks_, stop_, active_tasks_, current,
                   joined, submitted, executed, lateDequeues>>

\* wait_all: sleep_for is over, the lock_guard goes out of scope, next iteration.
WaitAllSleepEnd ==
    /\ pc = "wait_all_sleep"
    /\ mutex_ = "wait_all"
    /\ mutex_' = "free"
    /\ pc' = "wait_all"
    /\ UNCHANGED <<memVars, procVars, workers_, tasks_, stop_, active_tasks_, current,
                   joined, submitted, executed, lateDequeues>>

\* wait_all, the iteration that finds the pool idle: break, unlock, return.
WaitAllReturn ==
    /\ pc \in {"client", "wait_returned", "wait_all"}
    /\ mutex_ = "free"
    /\ WaitAllIdle
    /\ pc' = "wait_returned"
    /\ UNCHANGED <<memVars, procVars, poolVars>>

\* ~ThreadPool, first block: { lock_guard; stop_ = true; }
DtorStop ==
    /\ pc \in {"client", "wait_returned", "pool_scope_exit"}
    /\ mutex_ = "free"
    /\ stop_' = TRUE
    /\ pc' = "dtor_notify"
    /\ UNCHANGED <<memVars, procVars, workers_, tasks_, active_tasks_, mutex_, current,
                   joined, submitted, executed, lateDequeues>>

\* NotifyAll as notify_one: only one blocked worker is woken.
NotifyAll_OnlyOne ==
    [w \in DOMAIN workers_ |->
        IF /\ workers_[w] = "waiting"
           /\ \A v \in 1..(w - 1) : workers_[v] # "waiting"
        THEN "ready" ELSE workers_[w]]

\* condition_.notify_all(): every blocked worker is woken.
NotifyAll == [w \in DOMAIN workers_ |->
                 IF workers_[w] = "waiting" THEN "ready" ELSE workers_[w]]

DtorNotifyAll ==
    /\ pc = "dtor_notify"
    /\ workers_' = NotifyAll
    /\ pc' = "dtor_join"
    /\ UNCHANGED <<memVars, procVars, tasks_, stop_, active_tasks_, mutex_, current,
                   joined, submitted, executed, lateDequeues>>

\* for (auto& worker : workers_) worker.join(); in the order of workers_.
DtorJoin ==
    /\ pc = "dtor_join"
    /\ joined < Len(workers_)
    /\ workers_[joined + 1] = "exited"
    /\ joined' = joined + 1
    /\ UNCHANGED <<memVars, pc, procVars, workers_, tasks_, stop_, active_tasks_,
                   mutex_, current, submitted, executed, lateDequeues>>

\* The join loop is over: the destructor returns.
DtorReturn ==
    /\ pc = "dtor_join"
    /\ joined = Len(workers_)
    /\ pc' = "destroyed"
    /\ UNCHANGED <<memVars, procVars, poolVars>>

WorkerNext ==
    \E w \in DOMAIN workers_ :
        \/ WorkerBlock(w)
        \/ WorkerSpuriousWake(w)
        \/ WorkerExit(w)
        \/ WorkerDequeue(w)
        \/ WorkerRunTask(w)
        \/ WorkerDecrement(w)

\* A ProcessConfig with the default member initialisers for the advisory
\* fields and the given concurrency and max_threads.
ConfigWith(policy, threads) ==
    [memory |-> "Standard", concurrency |-> policy, safety |-> "Standard",
     max_threads |-> threads, chunk_size |-> 1000, enable_logging |-> FALSE]

\* The record a ProcessResult holds after default member initialisation.
DefaultResult ==
    [results |-> <<>>, items_processed |-> 0, threads_used |-> 0,
     success |-> TRUE, error_message |-> ""]

\* A stand-alone pool of 1..MaxWorkers workers and its owning thread.
InitPool ==
    /\ pc = "client"
    /\ NoMemoryPool
    /\ input = <<>>
    /\ config = ConfigWith("Adaptive", 1)
    /\ CORES = 0
    /\ result = DefaultResult
    /\ chunk_size = 0
    /\ loop_i = 0
    /\ futures = <<>>
    /\ waited = 0
    /\ invoked = <<>>
    /\ written = <<>>
    /\ \E n \in 1..MaxWorkers :
          /\ workers_ = [w \in 1..n |-> "ready"]
          /\ current = [w \in 1..n |-> 0]
    /\ tasks_ = <<>>
    /\ stop_ = FALSE
    /\ active_tasks_ = 0
    /\ mutex_ = "free"
    /\ joined = 0
    /\ submitted = 0
    /\ executed = [t \in 1..MaxTasks |-> 0]
    /\ lateDequeues = {}

NextPool ==
    \/ WorkerNext
    \/ EnqueuePush
    \/ EnqueueNotify
    \/ WaitAllPoll
    \/ WaitAllSleepEnd
    \/ WaitAllReturn
    \/ DtorStop
    \/ DtorNotifyAll
    \/ DtorJoin
    \/ DtorReturn

SpecPool == InitPool /\ [][NextPool]_vars

\* ========================================================================
\* MemoryPool
\* ========================================================================

\* allocate_block: the slots raw + 0 .. raw + block_size_ - 1 of a new
\* block, in the order they are pushed on available_.  Slots are numbered
\* from 1 across the blocks.
AllocateBlock(allocated, size) == [i \in 1..size |-> allocated + i]

\* acquire, entirely under the lock_guard: grow by one block when the free
\* list is empty, then take the slot at the back.
Acquire(c) ==
    /\ pc = "mem_client"
    /\ available_ = <<>> => pools_ < MaxBlocks
    /\ LET grow == available_ = <<>>
           avail == IF grow
                    THEN available_ \o AllocateBlock(total_allocated_, block_size_)
                    ELSE available_
       IN /\ avail # <<>>
          /\ held' = [held EXCEPT ![c] = @ \cup {avail[Len(avail)]}]
          /\ available_' = SubSeq(avail, 1, Len(avail) - 1)
          /\ pools_' = IF grow THEN pools_ + 1 ELSE pools_
          /\ total_allocated_' = IF grow THEN total_allocated_ + block_size_
                                 ELSE total_allocated_
    /\ UNCHANGED <<pc, block_size_, procVars, poolVars>>

\* acquire with block_size_ = 0: allocate_block adds a block of no slots,
\* the free list is still empty, and available_.back() / pop_back() on an
\* empty vector are undefined behaviour.  The program either traps or
\* hands out a pointer to no slot (0 here) and goes on.
AcquireBackOfEmpty(c) ==
    /\ pc = "mem_client"
    /\ available_ = <<>>
    /\ pools_ < MaxBlocks
    /\ block_size_ = 0
    /\ pools_' = pools_ + 1
    /\ \/ /\ pc' = "crashed"
          /\ UNCHANGED held
       \/ /\ held' = [held EXCEPT ![c] = @ \cup {0}]
          /\ UNCHANGED pc
    /\ UNCHANGED <<available_, block_size_, total_allocated_, procVars, poolVars>>

\* release(ptr), entirely under the lock_guard, of any slot the caller holds.
Release(c) ==
    /\ pc = "mem_client"
    /\ \E ptr \in held[c] :
          /\ available_' = Append(available_, ptr)
          /\ held' = [held EXCEPT ![c] = @ \ {ptr}]
    /\ UNCHANGED <<pc, pools_, block_size_, total_allocated_, procVars, poolVars>>

\* MemoryPool(block_size): one block allocated by the constructor; the
\* callers hold nothing.
InitMem ==
    /\ pc = "mem_client"
    /\ input = <<>>
    /\ config = ConfigWith("Adaptive", 1)
    /\ CORES = 0
    /\ result = DefaultResult
    /\ chunk_size = 0
    /\ loop_i = 0
    /\ futures = <<>>
    /\ waited = 0
    /\ invoked = <<>>
    /\ written = <<>>
    /\ workers_ = <<>>
    /\ current = <<>>
    /\ tasks_ = <<>>
    /\ stop_ = FALSE
    /\ active_tasks_ = 0
    /\ mutex_ = "free"
    /\ joined = 0
    /\ submitted = 0
    /\ executed = [t \in 1..MaxTasks |-> 0]
    /\ lateDequeues = {}
    /\ block_size_ \in 0..MaxBlock
    /\ pools_ = 1
    /\ available_ = AllocateBlock(0, block_size_)
    /\ total_allocated_ = block_size_
    /\ held = [c \in 1..MaxCallers |-> {}]

NextMem ==
    \E c \in 1..MaxCallers :
        \/ Acquire(c)
        \/ AcquireBackOfEmpty(c)
        \/ Release(c)

SpecMem == InitMem /\ [][NextMem]_vars

\* ========================================================================
\* The transformation `func` and the inputs
\* ========================================================================

\* func is the lambda of example_error_handling,
\* [](int x) -> double { if (x == 0) throw std::runtime_error(...); return 100.0 / x; },
\* in integer arithmetic; on -1 it throws an object that is not derived from
\* std::exception (func is a template parameter, it may throw anything).
FuncThrows(x) == IF x = 0 THEN "std" ELSE IF x = -1 THEN "other" ELSE "none"

FuncValue(x) == 100 \div x

\* e.what() of the std::runtime_error thrown by func
What(x) == "Division by zero"

\* The value of a value-initialised OutputT (results.resize)
DefaultOutput == 0

\* The input vectors: {1, 2, ..., n} as in the examples, with any of the
\* elements replaced by 0 or by -1.
Inputs ==
    UNION {{[k \in 1..n |-> IF mark[k] = "ok" THEN k
                            ELSE IF mark[k] = "std" THEN 0 ELSE -1] :
               mark \in [1..n -> {"ok", "std", "other"}]} :
           n \in 0..MaxLen}

\* The large inputs: a vector of PARALLEL_THRESHOLD elements as
\* std::vector<int> data(size) leaves it, all zero, so that func fails on
\* the first element of whatever partition it is given.
LargeInputs == {[k \in 1..PARALLEL_THRESHOLD |-> 0]}

Policies == {"Sequential", "Parallel", "Adaptive", "ThreadPool", "Unrecognized"}

MemoryPolicies == {"Standard", "Pooled", "Preallocated", "ZeroCopy"}

SafetyPolicies == {"Minimal", "Standard", "Guaranteed", "ThreadSafe"}

\* The configurations of the calls: max_threads is a size_t that defaults to
\* hardware_concurrency(), which may be 0.
Configs == {ConfigWith(p, m) : p \in Policies, m \in 0..MaxThreads}

\* Configurations with every field set freely.
AllConfigs ==
    [memory : MemoryPolicies, concurrency : Policies, safety : SafetyPolicies,
     max_threads : 0..MaxThreads, chunk_size : {1, 1000},
     enable_logging : BOOLEAN]

\* Values std::thread::hardware_concurrency() may return (0: not computable)
CoreCounts == {0, 1, 2}

Size == Len(input)

\* ========================================================================
\* process: the dispatcher
\* ========================================================================

\* Dispatch letting the safety policy force the sequential processor.
Dispatch_SafetyAware(policy) ==
    IF config.safety = "ThreadSafe" THEN "process_sequential"
    ELSE CASE policy = "Sequential" -> "process_sequential"
           [] policy \in {"Parallel", "ThreadPool"} -> "process_parallel"
           [] OTHER -> "process_adaptive"

\* switch (config.concurrency)
Dispatch(policy) ==
    CASE policy = "Sequential" -> "process_sequential"
      [] policy \in {"Parallel", "ThreadPool"} -> "process_parallel"
      [] OTHER -> "process_adaptive"

Process ==
    /\ pc = "start"
    /\ pc' = Dispatch(config.concurrency)
    /\ UNCHANGED <<memVars, procVars, poolVars>>

\* AdaptiveChoice taking a single core as enough to go parallel.
AdaptiveChoice_AnyCore(n, cores) ==
    IF n < PARALLEL_THRESHOLD THEN "process_sequential"
    ELSE IF n >= PARALLEL_THRESHOLD /\ cores > 0 THEN "process_parallel"
    ELSE "process_sequential"

\* AdaptiveChoice with the threshold itself still counted as small.
AdaptiveChoice_ThresholdSmall(n, cores) ==
    IF n <= PARALLEL_THRESHOLD THEN "process_sequential"
    ELSE IF n >= PARALLEL_THRESHOLD /\ cores > 1 THEN "process_parallel"
    ELSE "process_sequential"

\* The decision rules of process_adaptive
AdaptiveChoice(n, cores) ==
    IF n < PARALLEL_THRESHOLD THEN "process_sequential"
    ELSE IF n >= PARALLEL_THRESHOLD /\ cores > 1 THEN "process_parallel"
    ELSE "process_sequential"

ProcessAdaptive ==
    /\ pc = "process_adaptive"
    /\ \E c \in CoreCounts :
          /\ CORES' = c
          /\ pc' = AdaptiveChoice(Size, c)
    /\ UNCHANGED <<memVars, input, config, result, chunk_size, loop_i, futures, waited,
                   invoked, written, poolVars>>

\* ========================================================================
\* process_sequential
\* ========================================================================

\* ProcessResult result; results.reserve(n); result.threads_used = 1;
SeqBegin ==
    /\ pc = "process_sequential"
    /\ result' = [DefaultResult EXCEPT !.threads_used = 1]
    /\ pc' = "seq_loop"
    /\ UNCHANGED <<memVars, input, config, CORES, chunk_size, loop_i, futures, waited,
                   invoked, written, poolVars>>

\* The element the range-for loop is at (0-based): one push_back per
\* completed iteration.
SeqIndex == Len(result.results)

\* SeqInvoke inserting each value at the front of results.
SeqInvoke_PushFront ==
    /\ pc = "seq_loop"
    /\ SeqIndex < Size
    /\ FuncThrows(input[SeqIndex + 1]) = "none"
    /\ result' = [result EXCEPT
                    !.results = <<FuncValue(input[SeqIndex + 1])>> \o @]
    /\ invoked' = [invoked EXCEPT ![SeqIndex + 1] = @ + 1]
    /\ written' = [written EXCEPT ![SeqIndex + 1] = @ + 1]
    /\ UNCHANGED <<memVars, pc, input, config, CORES, chunk_size, loop_i, futures,
                   waited, poolVars>>

\* result.results.push_back(func(item)); func returns.
SeqInvoke ==
    /\ pc = "seq_loop"
    /\ SeqIndex < Size
    /\ FuncThrows(input[SeqIndex + 1]) = "none"
    /\ result' = [result EXCEPT
                    !.results = Append(@, FuncValue(input[SeqIndex + 1]))]
    /\ invoked' = [invoked EXCEPT ![SeqIndex + 1] = @ + 1]
    /\ written' = [written EXCEPT ![SeqIndex + 1] = @ + 1]
    /\ UNCHANGED <<memVars, pc, input, config, CORES, chunk_size, loop_i, futures,
                   waited, poolVars>>

\* func throws a std::exception: catch (const std::exception& e)
\* { result.success = false; result.error_message = e.what(); } and return.
SeqCatch ==
    /\ pc = "seq_loop"
    /\ SeqIndex < Size
    /\ FuncThrows(input[SeqIndex + 1]) = "std"
    /\ result' = [result EXCEPT !.success = FALSE,
                                !.error_message = What(input[SeqIndex + 1])]
    /\ invoked' = [invoked EXCEPT ![SeqIndex + 1] = @ + 1]
    /\ pc' = "done"
    /\ UNCHANGED <<memVars, input, config, CORES, chunk_size, loop_i, futures, waited,
                   written, poolVars>>

\* func throws something that is no std::exception: no handler matches, the
\* exception leaves process_sequential and process.
SeqEscape ==
    /\ pc = "seq_loop"
    /\ SeqIndex < Size
    /\ FuncThrows(input[SeqIndex + 1]) = "other"
    /\ invoked' = [invoked EXCEPT ![SeqIndex + 1] = @ + 1]
    /\ pc' = "thrown"
    /\ UNCHANGED <<memVars, input, config, CORES, result, chunk_size, loop_i, futures,
                   waited, written, poolVars>>

\* The loop is over: result.items_processed = input.size(); success = true.
SeqFinish ==
    /\ pc = "seq_loop"
    /\ SeqIndex = Size
    /\ result' = [result EXCEPT !.items_processed = Size, !.success = TRUE]
    /\ pc' = "done"
    /\ UNCHANGED <<memVars, input, config, CORES, chunk_size, loop_i, futures, waited,
                   invoked, written, poolVars>>

\* ========================================================================
\* process_parallel
\* ========================================================================

\* ParBegin building the pool with max_threads workers whatever the input
\* size.
ParBegin_PoolOfMaxThreads ==
    /\ pc = "process_parallel"
    /\ result' = [DefaultResult EXCEPT
                    !.results = [k \in 1..Size |-> DefaultOutput],
                    !.threads_used = Min(config.max_threads, Size)]
    /\ ThreadPoolCtor(config.max_threads)
    /\ pc' = "par_chunk"
    /\ UNCHANGED <<memVars, input, config, CORES, chunk_size, loop_i, futures, waited,
                   invoked, written, submitted, executed, lateDequeues>>

\* ProcessResult result; results.resize(n); threads_used = min(max_threads, n);
\* try { ThreadPool pool(result.threads_used);
ParBegin ==
    /\ pc = "process_parallel"
    /\ result' = [DefaultResult EXCEPT
                    !.results = [k \in 1..Size |-> DefaultOutput],
                    !.threads_used = Min(config.max_threads, Size)]
    /\ ThreadPoolCtor(Min(config.max_threads, Size))
    /\ pc' = "par_chunk"
    /\ UNCHANGED <<memVars, input, config, CORES, chunk_size, loop_i, futures, waited,
                   invoked, written, submitted, executed, lateDequeues>>

\* size_t chunk_size = std::max(size_t(1), input.size() / result.threads_used);
ChunkSize(n, threads) == Max(1, n \div threads)

ParChunk ==
    /\ pc = "par_chunk"
    /\ result.threads_used # 0
    /\ chunk_size' = ChunkSize(Size, result.threads_used)
    /\ loop_i' = 0
    /\ pc' = "par_spawn"
    /\ UNCHANGED <<memVars, input, config, CORES, result, futures, waited, invoked,
                   written, poolVars>>

\* The same statement with threads_used = 0 (an empty input, or max_threads
\* = 0): an integer division by zero, undefined behaviour.  The program
\* either traps or goes on with some value.
ParChunkDivByZero ==
    /\ pc = "par_chunk"
    /\ result.threads_used = 0
    /\ \/ /\ pc' = "crashed"
          /\ UNCHANGED <<memVars, chunk_size, loop_i>>
       \/ /\ \E c \in 1..MaxChunk : chunk_size' = c
          /\ loop_i' = 0
          /\ pc' = "par_spawn"
    /\ UNCHANGED <<memVars, input, config, CORES, result, futures, waited, invoked,
                   written, poolVars>>

\* ParSpawn taking end as the last index of the chunk while the task's
\* loop still treats it as one past the last.
ParSpawn_InclusiveEnd ==
    /\ pc = "par_spawn"
    /\ loop_i < Size
    /\ futures' = Append(futures,
                     [start |-> loop_i,
                      end |-> Min(loop_i + chunk_size, Size) - 1,
                      j |-> loop_i,
                      exception |-> "none"])
    /\ loop_i' = loop_i + chunk_size
    /\ UNCHANGED <<memVars, pc, input, config, CORES, result, chunk_size, waited,
                   invoked, written, poolVars>>

\* One iteration of for (i = 0; i < n; i += chunk_size):
\* end = min(i + chunk_size, n); futures.push_back(std::async(launch::async, ...)).
\* The task starts on a thread of its own.
ParSpawn ==
    /\ pc = "par_spawn"
    /\ loop_i < Size
    /\ futures' = Append(futures,
                     [start |-> loop_i,
                      end |-> Min(loop_i + chunk_size, Size),
                      j |-> loop_i,
                      exception |-> "none"])
    /\ loop_i' = loop_i + chunk_size
    /\ UNCHANGED <<memVars, pc, input, config, CORES, result, chunk_size, waited,
                   invoked, written, poolVars>>

ParSpawnEnd ==
    /\ pc = "par_spawn"
    /\ loop_i >= Size
    /\ pc' = "par_wait"
    /\ UNCHANGED <<memVars, procVars, poolVars>>

\* The shared state of a future is ready: its task returned or threw.
FutureReady(fut) == fut.j = fut.end \/ fut.exception # "none"

\* TaskInvoke storing at the index relative to the partition's start.
TaskInvoke_ChunkRelative(f) ==
    /\ f \in DOMAIN futures
    /\ ~FutureReady(futures[f])
    /\ FuncThrows(input[futures[f].j + 1]) = "none"
    /\ result' = [result EXCEPT
                    !.results[futures[f].j - futures[f].start + 1] =
                        FuncValue(input[futures[f].j + 1])]
    /\ invoked' = [invoked EXCEPT ![futures[f].j + 1] = @ + 1]
    /\ written' = [written EXCEPT ![futures[f].j - futures[f].start + 1] = @ + 1]
    /\ futures' = [futures EXCEPT ![f].j = @ + 1]
    /\ UNCHANGED <<memVars, pc, input, config, CORES, chunk_size, loop_i, waited,
                   poolVars>>

\* One iteration of the task's loop: result.results[j] = func(input[j]);
TaskInvoke(f) ==
    /\ f \in DOMAIN futures
    /\ ~FutureReady(futures[f])
    /\ FuncThrows(input[futures[f].j + 1]) = "none"
    /\ result' = [result EXCEPT
                    !.results[futures[f].j + 1] = FuncValue(input[futures[f].j + 1])]
    /\ invoked' = [invoked EXCEPT ![futures[f].j + 1] = @ + 1]
    /\ written' = [written EXCEPT ![futures[f].j + 1] = @ + 1]
    /\ futures' = [futures EXCEPT ![f].j = @ + 1]
    /\ UNCHANGED <<memVars, pc, input, config, CORES, chunk_size, loop_i, waited,
                   poolVars>>

\* TaskThrow with the exception swallowed inside the loop: the task skips
\* the element and goes on with the next one.
TaskThrow_SkipElement(f) ==
    /\ f \in DOMAIN futures
    /\ ~FutureReady(futures[f])
    /\ FuncThrows(input[futures[f].j + 1]) # "none"
    /\ invoked' = [invoked EXCEPT ![futures[f].j + 1] = @ + 1]
    /\ futures' = [futures EXCEPT ![f].j = @ + 1]
    /\ UNCHANGED <<memVars, pc, input, config, CORES, result, chunk_size, loop_i,
                   waited, written, poolVars>>

\* func throws inside the task: the exception is stored in the future's
\* shared state and the task ends.
TaskThrow(f) ==
    /\ f \in DOMAIN futures
    /\ ~FutureReady(futures[f])
    /\ FuncThrows(input[futures[f].j + 1]) # "none"
    /\ invoked' = [invoked EXCEPT ![futures[f].j + 1] = @ + 1]
    /\ futures' = [futures EXCEPT
                     ![f].exception = FuncThrows(input[futures[f].j + 1])]
    /\ UNCHANGED <<memVars, pc, input, config, CORES, result, chunk_size, loop_i,
                   waited, written, poolVars>>

\* ParWait that only polls the future (wait_for(0)) and moves on.
ParWait_NoBlock ==
    /\ pc = "par_wait"
    /\ waited < Len(futures)
    /\ waited' = waited + 1
    /\ UNCHANGED <<memVars, pc, input, config, CORES, result, chunk_size, loop_i,
                   futures, invoked, written, poolVars>>

\* for (auto& future : futures) future.wait();  wait() blocks until the
\* shared state is ready and returns; it does not rethrow a stored exception.
ParWait ==
    /\ pc = "par_wait"
    /\ waited < Len(futures)
    /\ FutureReady(futures[waited + 1])
    /\ waited' = waited + 1
    /\ UNCHANGED <<memVars, pc, input, config, CORES, result, chunk_size, loop_i,
                   futures, invoked, written, poolVars>>

\* result.items_processed = input.size(); result.success = true; then the
\* try block is left: futures (all ready) and then pool are destroyed.
ParFinish ==
    /\ pc = "par_wait"
    /\ waited = Len(futures)
    /\ result' = [result EXCEPT !.items_processed = Size, !.success = TRUE]
    /\ pc' = "pool_scope_exit"
    /\ UNCHANGED <<memVars, input, config, CORES, chunk_size, loop_i, futures, waited,
                   invoked, written, poolVars>>

\* return result;
ParReturn ==
    /\ pc = "destroyed"
    /\ pc' = "done"
    /\ UNCHANGED <<memVars, procVars, poolVars>>

TaskNext ==
    \E f \in DOMAIN futures :
        \/ TaskInvoke(f)
        \/ TaskThrow(f)

\* The workers of the pool process_parallel builds: its queue stays empty,
\* so they block, are woken by the destructor and exit.
IdleWorkerNext ==
    \E w \in DOMAIN workers_ :
        \/ WorkerBlock(w)
        \/ WorkerSpuriousWake(w)
        \/ WorkerExit(w)

\* A call process(input, config, func) about to be made.  A large input is
\* given at least one thread: with none the undefined chunk size may cut it
\* into a thousand concurrent tasks.
InitCall(inputs, configs) ==
    /\ pc = "start"
    /\ NoMemoryPool
    /\ input \in inputs
    /\ config \in configs
    /\ Len(input) > MaxLen => config.max_threads >= 1
    /\ CORES = 0
    /\ result = DefaultResult
    /\ chunk_size = 0
    /\ loop_i = 0
    /\ futures = <<>>
    /\ waited = 0
    /\ invoked = [k \in 1..Len(input) |-> 0]
    /\ written = [k \in 1..Len(input) |-> 0]
    /\ workers_ = <<>>
    /\ tasks_ = <<>>
    /\ stop_ = FALSE
    /\ active_tasks_ = 0
    /\ mutex_ = "free"
    /\ current = <<>>
    /\ joined = 0
    /\ submitted = 0
    /\ executed = [t \in 1..MaxTasks |-> 0]
    /\ lateDequeues = {}

Init == InitCall(Inputs \cup LargeInputs, Configs)

Next ==
    \/ Process
    \/ ProcessAdaptive
    \/ SeqBegin
    \/ SeqInvoke
    \/ SeqCatch
    \/ SeqEscape
    \/ SeqFinish
    \/ ParBegin
    \/ ParChunk
    \/ ParChunkDivByZero
    \/ ParSpawn
    \/ ParSpawnEnd
    \/ TaskNext
    \/ ParWait
    \/ ParFinish
    \/ IdleWorkerNext
    \/ DtorStop
    \/ DtorNotifyAll
    \/ DtorJoin
    \/ DtorReturn
    \/ ParReturn

Spec == Init /\ [][Next]_vars

\* The calls on inputs of at most one element under every configuration.
InitDispatch == InitCall({in \in Inputs : Len(in) <= 1}, AllConfigs)

SpecDispatch == InitDispatch /\ [][Next]_vars

\* Fairness of the stand-alone pool: threads are preemptively scheduled, so
\* a worker that can take its next step (outside a spurious wake-up, which
\* nothing guarantees) eventually takes it, and so does the owning thread
\* inside enqueue, wait_all and the destructor.  std::mutex promises no
\* order among the threads that want it, so the fairness is weak: a thread
\* whose step needs the mutex is only sure to take it if the mutex stays
\* free until it does.
WorkerStep(w) ==
    \/ WorkerBlock(w)
    \/ WorkerExit(w)
    \/ WorkerDequeue(w)
    \/ WorkerRunTask(w)
    \/ WorkerDecrement(w)

\* The next iteration of the loop of wait_all, once inside it.
WaitAllContinue ==
    /\ pc = "wait_all"
    /\ (WaitAllPoll \/ WaitAllReturn)

OwnerStep ==
    \/ EnqueueNotify
    \/ WaitAllSleepEnd
    \/ WaitAllContinue
    \/ DtorNotifyAll
    \/ DtorJoin
    \/ DtorReturn

FairSpecPool ==
    /\ SpecPool
    /\ \A w \in 1..MaxWorkers : WF_vars(WorkerStep(w))
    /\ WF_vars(OwnerStep)

\* A pool whose owner only enqueues and, at some point of its choosing,
\* destroys the pool: wait_all is never called, so the mutex is only ever
\* held for the length of one critical section.
NextEnqueue ==
    \/ WorkerNext
    \/ EnqueuePush
    \/ EnqueueNotify
    \/ DtorStop
    \/ DtorNotifyAll
    \/ DtorJoin
    \/ DtorReturn

SpecEnqueue == InitPool /\ [][NextEnqueue]_vars

\* The owner finishes the call it is in (the notify_one of an enqueue, the
\* destructor once entered); nothing makes it enqueue again or destroy the
\* pool.
EnqueueOwnerStep ==
    \/ EnqueueNotify
    \/ DtorNotifyAll
    \/ DtorJoin
    \/ DtorReturn

FairSpecEnqueue ==
    /\ SpecEnqueue
    /\ \A w \in 1..MaxWorkers : WF_vars(WorkerStep(w))
    /\ WF_vars(EnqueueOwnerStep)

\* Fairness of a call: the calling thread, every task thread and every pool
\* worker is scheduled again and again.
MainStep ==
    \/ Process
    \/ ProcessAdaptive
    \/ SeqBegin
    \/ SeqInvoke
    \/ SeqCatch
    \/ SeqEscape
    \/ SeqFinish
    \/ ParBegin
    \/ ParChunk
    \/ ParChunkDivByZero
    \/ ParSpawn
    \/ ParSpawnEnd
    \/ ParWait
    \/ ParFinish
    \/ DtorStop
    \/ DtorNotifyAll
    \/ DtorJoin
    \/ DtorReturn
    \/ ParReturn

TaskStep(f) == TaskInvoke(f) \/ TaskThrow(f)

FairSpec ==
    /\ Spec
    /\ WF_vars(MainStep)
    /\ \A f \in 1..(MaxLen + MaxThreads + 1) : WF_vars(TaskStep(f))
    /\ \A w \in 1..MaxThreads : WF_vars(WorkerStep(w))

\* ========================================================================
\* Properties
\* ========================================================================

\* The processor that serves the call (defined once process_adaptive, if it
\* is on the path, has read CORES).
StrategyRun ==
    IF Dispatch(config.concurrency) = "process_adaptive"
    THEN AdaptiveChoice(Size, CORES)
    ELSE Dispatch(config.concurrency)

Returned == pc = "done"

\* process_parallel has left its partition loop.
Partitioned ==
    \/ pc \in {"par_wait", "pool_scope_exit", "dtor_notify", "dtor_join",
               "destroyed"}
    \/ Returned /\ StrategyRun = "process_parallel"

\* func failed, with a std::exception, on some element it was invoked on.
SomeInvocationFailed ==
    \E k \in 1..Size : invoked[k] > 0 /\ FuncThrows(input[k]) = "std"

NoElementFails == \A k \in 1..Size : FuncThrows(input[k]) = "none"

\* Partition tasks that are running (their future is not ready).
RunningTasks == {f \in DOMAIN futures : ~FutureReady(futures[f])}

\* In a call of process the pool's queue stays empty and no worker ever
\* holds a task: the steps of Next are all the steps the workers can take.
PoolStaysIdle ==
    /\ tasks_ = <<>>
    /\ active_tasks_ = 0
    /\ submitted = 0
    /\ \A w \in DOMAIN workers_ : workers_[w] \in {"ready", "waiting", "exited"}

\* C1: under the Parallel strategy a call in which some invocation of func
\* failed returns success = false with the error description recorded.
C1_ParallelFailureReported ==
    (Returned /\ StrategyRun = "process_parallel" /\ SomeInvocationFailed)
        => (~result.success /\ result.error_message = What(0))

\* The first element func throws a std::exception on, no earlier element
\* failing (1-based; the claim's k is FirstStdFailure - 1).
HasFirstStdFailure ==
    \E k \in 1..Size :
        /\ FuncThrows(input[k]) = "std"
        /\ \A m \in 1..(k - 1) : FuncThrows(input[m]) = "none"

FirstStdFailure ==
    CHOOSE k \in 1..Size :
        /\ FuncThrows(input[k]) = "std"
        /\ \A m \in 1..(k - 1) : FuncThrows(input[m]) = "none"

\* C2: under the Sequential strategy, when func fails at index k, the record
\* has success = false, the error description, exactly the k results of the
\* elements before k, items_processed = k, and func is not invoked after k.
C2_SequentialFailureRecord ==
    (Returned /\ StrategyRun = "process_sequential" /\ HasFirstStdFailure)
        => /\ ~result.success
           /\ result.error_message = What(input[FirstStdFailure])
           /\ result.results =
                 [m \in 1..(FirstStdFailure - 1) |-> FuncValue(input[m])]
           /\ result.items_processed = FirstStdFailure - 1
           /\ \A m \in (FirstStdFailure + 1)..Size : invoked[m] = 0

\* The partitions that contain index idx (0-based).
PartitionsOf(idx) ==
    {f \in DOMAIN futures : futures[f].start <= idx /\ idx < futures[f].end}

\* C3: for W >= 1 the partitions [start, end) of the Parallel strategy are
\* contiguous, pairwise disjoint and cover [0, N) exactly: the first starts
\* at 0, each starts where its predecessor ends, the last ends at N, and
\* every index lies in exactly one partition.
C3_PartitionsCoverExactlyOnce ==
    (Partitioned /\ result.threads_used >= 1)
        => /\ \A idx \in 0..(Size - 1) : Cardinality(PartitionsOf(idx)) = 1
           /\ \A f \in DOMAIN futures :
                 /\ 0 <= futures[f].start
                 /\ futures[f].start < futures[f].end
                 /\ futures[f].end <= Size
                 /\ futures[f].start = IF f = 1 THEN 0 ELSE futures[f - 1].end
           /\ Size > 0 => futures[Len(futures)].end = Size

C3_Witness ==
    /\ pc = "par_wait"
    /\ Size = 5
    /\ result.threads_used = 2
    /\ Len(futures) = 3
    /\ futures[3].end - futures[3].start = 1

\* C4: for N >= 1 and max_threads >= 1 the partitioner produces exactly
\* W = min(max_threads, N) partitions with chunk size max(1, N / W), the
\* last of them extending to N.
C4_ExactlyWPartitions ==
    (Partitioned /\ Size >= 1 /\ config.max_threads >= 1)
        => /\ result.threads_used = Min(config.max_threads, Size)
           /\ chunk_size = Max(1, Size \div result.threads_used)
           /\ Len(futures) = result.threads_used
           /\ \A f \in 1..(Len(futures) - 1) :
                 futures[f].end - futures[f].start = chunk_size
           /\ futures[Len(futures)].end = Size

\* C5: a call on an empty input never reaches the division N / W with
\* W = 0, invokes func on nothing, and returns normally a record with
\* items_processed = 0, threads_used = 0 and success = true.
C5_EmptyInput ==
    Size = 0
        => /\ ~(pc = "par_chunk" /\ result.threads_used = 0)
           /\ pc \notin {"crashed", "thrown"}
           /\ Returned => /\ result.items_processed = 0
                          /\ result.threads_used = 0
                          /\ result.success

\* C6: under the Parallel strategy with a func that fails on no element the
\* output is pre-sized to N from before the first task on, no slot is ever
\* written twice, no two partitions share an index, and the returned record
\* has output[i] = func(input[i]) for every i, items_processed = N and
\* success = true.
C6_IndexStablePlacement ==
    /\ (pc \in {"par_chunk", "par_spawn"} \/ Partitioned)
          => /\ Len(result.results) = Size
             /\ \A k \in 1..Size : written[k] <= 1
             /\ \A f, g \in DOMAIN futures :
                   f # g => \/ futures[f].end <= futures[g].start
                            \/ futures[g].end <= futures[f].start
    /\ (Returned /\ StrategyRun = "process_parallel" /\ NoElementFails)
          => /\ result.results = [k \in 1..Size |-> FuncValue(input[k])]
             /\ \A k \in 1..Size : written[k] = 1
             /\ result.items_processed = Size
             /\ result.success

C6_Witness ==
    /\ Returned
    /\ StrategyRun = "process_parallel"
    /\ NoElementFails
    /\ Size = 5
    /\ Len(futures) = 3
    /\ result.results = <<100, 50, 33, 25, 20>>

\* C7: in the Parallel strategy the pool has as many workers as there are
\* partitions, every partition task is submitted to the pool, and never more
\* partition tasks run at once than threads_used.
C7_TasksRunOnThePool ==
    /\ Partitioned => Len(workers_) = Len(futures)
    /\ (pc = "par_spawn" \/ Partitioned) => submitted = Len(futures)
    /\ (pc = "par_spawn" \/ Partitioned)
          => Cardinality(RunningTasks) <= result.threads_used

\* C8: in a pool with at least one worker no task is run twice, none is run
\* that was not submitted, and when the destructor has returned every task
\* submitted has run exactly once, those still queued at the stop request
\* included.
C8_EachTaskExactlyOnce ==
    /\ \A t \in 1..MaxTasks :
          /\ executed[t] <= 1
          /\ t > submitted => executed[t] = 0
    /\ pc = "destroyed" => \A t \in 1..submitted : executed[t] = 1

C8_Witness ==
    /\ pc = "destroyed"
    /\ submitted >= 2
    /\ Len(workers_) >= 2
    /\ lateDequeues # {}
    /\ \A t \in 1..submitted : executed[t] = 1

\* Workers that hold a task they took from the queue and have not yet
\* decremented active_tasks_ for.
MidTask == {w \in DOMAIN workers_ : workers_[w] \in {"running", "dec"}}

\* C9: when wait_all returns the queue is empty, no worker is mid-task and
\* every task submitted so far has run; at all times every task that has
\* left the queue and is not yet finished is counted in active_tasks_.
C9_WaitAllIsABarrier ==
    /\ pc = "wait_returned"
          => /\ tasks_ = <<>>
             /\ MidTask = {}
             /\ \A t \in 1..submitted : executed[t] = 1
    /\ active_tasks_ = Cardinality(MidTask)

C9_Witness ==
    /\ pc = "wait_returned"
    /\ submitted >= 2
    /\ Len(workers_) >= 2
    /\ \A t \in 1..submitted : executed[t] = 1

\* C10: the destructor's notify_all leaves no worker blocked; a worker that
\* is running a task goes on to finish it; the destructor has returned only
\* if every worker has exited; and once the stop request is raised the
\* destructor eventually returns.
C10_Teardown ==
    /\ [][(pc = "dtor_notify" /\ pc' = "dtor_join")
             => \A w \in DOMAIN workers_ : workers_'[w] # "waiting"]_vars
    /\ [][\A w \in DOMAIN workers_ :
             workers_[w] = "running" => workers_'[w] \in {"running", "dec"}]_vars
    /\ [](pc = "destroyed" => \A w \in DOMAIN workers_ : workers_[w] = "exited")
    /\ (pc = "dtor_notify") ~> (pc = "destroyed")

C10_Witness ==
    /\ pc = "dtor_join"
    /\ stop_
    /\ Len(workers_) >= 2
    /\ \E w \in DOMAIN workers_ : workers_[w] = "running"
    /\ \E w \in DOMAIN workers_ : workers_[w] = "exited"

\* The call went through process_adaptive.
ViaAdaptive == Dispatch(config.concurrency) = "process_adaptive"

\* C11: in the Parallel strategy the outcome is decided only when every
\* partition task has ended, and when the call returns every pool worker has
\* exited and been joined and no task thread is running.
C11_NoThreadOutlivesTheCall ==
    /\ (pc \in {"pool_scope_exit", "dtor_notify", "dtor_join", "destroyed"}
          \/ (Returned /\ StrategyRun = "process_parallel"))
          => /\ RunningTasks = {}
             /\ waited = Len(futures)
    /\ (Returned /\ StrategyRun = "process_parallel")
          => /\ \A w \in DOMAIN workers_ : workers_[w] = "exited"
             /\ joined = Len(workers_)

C11_Witness ==
    /\ Returned
    /\ StrategyRun = "process_parallel"
    /\ Len(futures) = 3
    /\ \E f \in DOMAIN futures : futures[f].exception = "std"
    /\ \E f \in DOMAIN futures : futures[f].exception = "none"
    /\ Len(workers_) = 2
    /\ \A w \in DOMAIN workers_ : workers_[w] = "exited"

\* C12: under the Parallel strategy, when some invocation of func failed,
\* the returned items_processed is the number of output slots written.
C12_ItemsProcessedCountsWrittenSlots ==
    (Returned /\ StrategyRun = "process_parallel" /\ SomeInvocationFailed)
        => result.items_processed = Cardinality({k \in 1..Size : written[k] > 0})

\* C13 as stated: through process_adaptive an input shorter than 1000 is
\* served sequentially with threads_used = 1, and one of 1000 or more with
\* more than one core is served in parallel with 1 < threads_used <=
\* max_threads.
C13_AdaptiveThresholdStated ==
    (Returned /\ ViaAdaptive)
        => /\ Size < 1000 => (futures = <<>> /\ result.threads_used = 1)
           /\ (Size >= 1000 /\ CORES > 1)
                 => /\ futures # <<>>
                    /\ result.threads_used > 1
                    /\ result.threads_used <= config.max_threads

\* C13 as amended: through process_adaptive an input shorter than 1000 is
\* served sequentially with threads_used = 1, and one of 1000 or more with
\* more than one core is served in parallel with threads_used =
\* min(max_threads, N), which is at most max_threads and exceeds 1 only when
\* max_threads does.
C13_AdaptiveThreshold ==
    (Returned /\ ViaAdaptive)
        => /\ Size < 1000 => (futures = <<>> /\ result.threads_used = 1)
           /\ (Size >= 1000 /\ CORES > 1)
                 => /\ futures # <<>>
                    /\ result.threads_used = Min(config.max_threads, Size)
                    /\ result.threads_used <= config.max_threads
                    /\ (result.threads_used > 1) <=> (config.max_threads > 1)

C13_Witness ==
    /\ Returned
    /\ config.concurrency = "Adaptive"
    /\ Size >= 1000
    /\ CORES > 1
    /\ Len(workers_) = 2
    /\ result.threads_used = 2

\* C14: process chooses the processor from config.concurrency alone:
\* Sequential gives process_sequential, Parallel and ThreadPool give
\* process_parallel, anything else gives process_adaptive, whatever the
\* memory and safety policies, chunk_size and enable_logging are.
C14_DispatchByConcurrencyAlone ==
    [][pc = "start"
          => pc' = IF config.concurrency = "Sequential"
                   THEN "process_sequential"
                   ELSE IF config.concurrency \in {"Parallel", "ThreadPool"}
                   THEN "process_parallel"
                   ELSE "process_adaptive"]_vars

C14_Witness ==
    /\ pc = "process_parallel"
    /\ config.concurrency = "ThreadPool"
    /\ config.memory = "Pooled"
    /\ config.safety = "ThreadSafe"
    /\ config.chunk_size = 1
    /\ config.enable_logging

\* C15: for a func that fails on no element every call that returns, under
\* whichever policy and interleaving, returns the output
\* <<func(input[0]), ..., func(input[N-1])>>, so any two calls on the same
\* input return equal outputs.
C15_SameOutputUnderEveryStrategy ==
    (Returned /\ NoElementFails)
        => result.results = [k \in 1..Size |-> FuncValue(input[k])]

C15_Witness ==
    /\ Returned
    /\ StrategyRun = "process_sequential"
    /\ config.concurrency = "Adaptive"
    /\ NoElementFails
    /\ Size = 5
    /\ result.results = <<100, 50, 33, 25, 20>>

\* func failed, whatever it threw, on some element it was invoked on.
SomeInvocationThrew ==
    \E k \in 1..Size : invoked[k] > 0 /\ FuncThrows(input[k]) # "none"

\* C16: a failure of func never leaves process as an exception; the call
\* returns a record with success = false and the description stored.
C16_FailureReturnedAsRecord ==
    /\ pc # "thrown"
    /\ (Returned /\ SomeInvocationThrew)
          => (~result.success /\ result.error_message # "")

\* C17: every call, whatever the policy, the input length and max_threads,
\* eventually reaches DONE with its record.
C17_CallReachesDone == <>Returned

\* C18: process_adaptive invokes func on nothing and touches no record: its
\* one step hands the call to process_parallel when N >= 1000 and CORES > 1
\* and to process_sequential otherwise (N < 1000, or one core at most), and
\* the record returned is that of the one processor that ran.
C18_AdaptiveOnlyDelegates ==
    /\ [][pc = "process_adaptive"
             => /\ pc' = IF Size >= 1000 /\ CORES' > 1
                         THEN "process_parallel" ELSE "process_sequential"
                /\ invoked' = invoked
                /\ written' = written
                /\ result' = result]_vars
    /\ [](pc = "process_adaptive"
             => (result = DefaultResult /\ \A k \in 1..Size : invoked[k] = 0))
    /\ []((Returned /\ ViaAdaptive)
             => /\ \A k \in 1..Size : invoked[k] <= 1
                /\ IF Size >= 1000 /\ CORES > 1
                   THEN /\ futures # <<>>
                        /\ Len(result.results) = Size
                        /\ Len(workers_) = result.threads_used
                   ELSE /\ futures = <<>>
                        /\ workers_ = <<>>
                        /\ result.threads_used = 1)

C18_Witness ==
    /\ Returned
    /\ config.concurrency = "Adaptive"
    /\ Size >= 1000
    /\ CORES = 1
    /\ futures = <<>>
    /\ result.threads_used = 1
    /\ ~result.success

\* C19: the Parallel strategy reports as threads_used the number of workers
\* of the pool it built, which is min(max_threads, N) and so at most N; the
\* Sequential strategy reports threads_used = 1.
C19_ThreadsUsedIsPoolSize ==
    /\ (pc \in {"par_chunk", "par_spawn"} \/ Partitioned)
          => /\ result.threads_used = Len(workers_)
             /\ result.threads_used = Min(config.max_threads, Size)
             /\ result.threads_used <= Size
    /\ (pc = "seq_loop" \/ (Returned /\ StrategyRun = "process_sequential"))
          => result.threads_used = 1

C19_Witness ==
    /\ Returned
    /\ StrategyRun = "process_parallel"
    /\ Size = 1
    /\ config.max_threads = 2
    /\ Len(workers_) = 1
    /\ result.threads_used = 1

\* C20: with at least one worker, a wait_all that has begun eventually
\* returns.
C20_WaitAllReturns ==
    (pc \in {"wait_all", "wait_all_sleep"}) ~> (pc = "wait_returned")

\* C21: no lost wake-up: every task submitted to a pool with at least one
\* worker is eventually run, in every interleaving of enqueue with the
\* workers entering and leaving the wait, whether or not the owner ever
\* enqueues again or destroys the pool.
C21_NoLostWakeUp ==
    \A t \in 1..MaxTasks : (submitted >= t) ~> (executed[t] = 1)

C21_Witness ==
    /\ ~stop_
    /\ pc = "client"
    /\ submitted >= 2
    /\ \A t \in 1..submitted : executed[t] = 1
    /\ \A w \in DOMAIN workers_ : workers_[w] = "waiting"
    /\ Len(workers_) >= 2

\* C22: a worker exits only in a step that starts with the stop request
\* raised and the queue empty, and a worker takes a task only in a step that
\* starts with a non-empty queue, from which it removes exactly the last
\* task.
C22_WorkerLoopSafety ==
    /\ [][\A w \in DOMAIN workers_ :
             (workers_[w] # "exited" /\ workers_'[w] = "exited")
                => (stop_ /\ tasks_ = <<>>)]_vars
    /\ [][\A w \in DOMAIN workers_ :
             (workers_[w] # "running" /\ workers_'[w] = "running")
                => /\ tasks_ # <<>>
                   /\ current'[w] = tasks_[Len(tasks_)]
                   /\ tasks_' = SubSeq(tasks_, 1, Len(tasks_) - 1)]_vars
    /\ [](\A w \in DOMAIN workers_ :
             workers_[w] = "exited" => (stop_ /\ current[w] = 0))

C22_Witness ==
    /\ stop_
    /\ tasks_ = <<>>
    /\ submitted >= 2
    /\ lateDequeues # {}
    /\ Len(workers_) >= 2
    /\ \E w \in DOMAIN workers_ : workers_[w] = "exited"
    /\ \E w \in DOMAIN workers_ : workers_[w] = "dec"

\* C23: active_tasks_ always equals the number of workers that have taken a
\* task and not yet decremented for it, so it stays between 0 and the
\* number of workers; the queue shrinks in exactly the steps that increment
\* the counter, by one task for one increment.
C23_ActiveTasksCountsWorkersMidTask ==
    /\ [](/\ active_tasks_ = Cardinality(MidTask)
          /\ active_tasks_ >= 0
          /\ active_tasks_ <= Len(workers_)
          /\ \A w \in DOMAIN workers_ : (current[w] # 0) <=> (w \in MidTask))
    /\ [][(Len(tasks_') < Len(tasks_))
             <=> (active_tasks_' = active_tasks_ + 1)]_vars
    /\ [][active_tasks_' > active_tasks_
             => Len(tasks_') = Len(tasks_) - 1]_vars
    /\ [][active_tasks_' < active_tasks_
             => /\ active_tasks_' = active_tasks_ - 1
                /\ active_tasks_ > 0
                /\ \E w \in DOMAIN workers_ :
                      workers_[w] = "dec" /\ workers_'[w] = "ready"]_vars

C23_Witness ==
    /\ active_tasks_ = 2
    /\ Len(workers_) = 2
    /\ tasks_ # <<>>
    /\ workers_[1] = "dec"
    /\ workers_[2] = "running"
    /\ ~stop_

\* The first element (1-based) from k to e on which func fails, or e + 1
\* when there is none.
RECURSIVE FirstFailFrom(_, _)
FirstFailFrom(k, e) ==
    IF k > e THEN e + 1
    ELSE IF FuncThrows(input[k]) # "none" THEN k
    ELSE FirstFailFrom(k + 1, e)

\* The first failing element of the partition of future f.
FailAt(f) == FirstFailFrom(futures[f].start + 1, futures[f].end)

\* C24: in process_parallel the output keeps length N from the resize on;
\* func is never invoked past the first failing element of a partition and
\* the slots from that element to the partition's end are never assigned;
\* when the call returns, every partition has been processed up to its
\* first failing element (in full when it has none): the slots before it
\* hold func's values, assigned once, the failing element was tried once,
\* and the slots from it on hold the default value.
C24_PartitionStopsAtItsFailure ==
    (StrategyRun = "process_parallel" /\ (pc = "par_spawn" \/ Partitioned))
       => /\ Len(result.results) = Size
          /\ \A f \in DOMAIN futures :
                LET fail == FailAt(f) IN
                \A k \in (futures[f].start + 1)..futures[f].end :
                   /\ k > fail => invoked[k] = 0
                   /\ k >= fail
                         => /\ written[k] = 0
                            /\ result.results[k] = DefaultOutput
                   /\ Returned =>
                         /\ k <= fail => invoked[k] = 1
                         /\ k < fail
                               => /\ written[k] = 1
                                  /\ result.results[k] = FuncValue(input[k])

C24_Witness ==
    /\ Returned
    /\ StrategyRun = "process_parallel"
    /\ Len(futures) = 3
    /\ FailAt(1) = futures[1].start + 1
    /\ futures[1].end = futures[1].start + 2
    /\ FailAt(2) = futures[2].start + 2
    /\ FailAt(3) = futures[3].end + 1
    /\ result.results[futures[2].start + 1] # DefaultOutput
    /\ Len(result.results) = 5

\* The number of slots held by the callers 1..c.
RECURSIVE HeldCount(_)
HeldCount(c) == IF c = 0 THEN 0 ELSE Cardinality(held[c]) + HeldCount(c - 1)

\* C25: for every block size, after any acquires and releases of held
\* slots, acquire has returned (the program has not trapped), every slot
\* held is a slot of an allocated block, held by one caller only and not
\* on the free list, the free list has no slot twice, and available_count
\* plus the number of held slots is total_allocated.
C25_MemoryPoolSlots ==
    /\ pc # "crashed"
    /\ \A c \in DOMAIN held :
          /\ held[c] \subseteq 1..total_allocated_
          /\ \A d \in DOMAIN held : c # d => held[c] \cap held[d] = {}
          /\ \A i \in DOMAIN available_ : available_[i] \notin held[c]
    /\ \A i, j \in DOMAIN available_ : i # j => available_[i] # available_[j]
    /\ Len(available_) + HeldCount(Len(held)) = total_allocated_

====
